---- MODULE Spec2Model ----
(***************************************************************************)
(* The download / merge pipeline of youtube_downloader, in its two front   *)
(* ends: the console tool (src/youtube_downloader.py, download_video) and  *)
(* the Tk front end (src/youtube_downloader_gui/youtube_downloader_gui.py, *)
(* class YouTubeDownloaderGUI).                                            *)
(*                                                                         *)
(* A session is one run of download_video (console) or one worker thread   *)
(* started by start_download (GUI).  The download directory is the set     *)
(* `files`.  pytubefix's Stream.download opens its target file when it     *)
(* starts, writes a chunk and then calls the registered progress callback, *)
(* and leaves the partly written file behind when it raises.  ffmpeg is a  *)
(* black box that writes to the output path it is given and ends with an   *)
(* exit status.                                                            *)
(***************************************************************************)
EXTENDS Integers, Sequences, FiniteSets, TLC

\* Bounds of the model.
MaxSessions == 2   \* download sessions started in one run of the GUI
MaxChunks == 2     \* chunks of one byte download
MaxStreams == 3    \* streams of a video, where menus are built in full
MaxSources == 2    \* streams of a video, where a session runs on its menu
MaxLine == 2       \* characters of a line typed at the prompt
MaxFetches == 2    \* fetches of video information in one run of the GUI

Sessions == 1..MaxSessions

VARIABLES
    frontend,         \* "console" | "gui": which program runs
    verbose,          \* console: the -v flag
    files,            \* the files of the download directory
    w,                \* per session: control state and history
    shown,            \* per session: the outcomes presented to the user
    exitCode,         \* console: the process exit status, -1 while it runs
    yt,               \* GUI: the fetch self.yt comes from (0 = None)
    downloading,      \* GUI: self.downloading
    download_thread,  \* GUI: self.download_thread (0 = None, else a session)
    cancel_download,  \* GUI: self.cancel_download
    download_btn,     \* GUI: state of the Download button
    cancel_btn,       \* GUI: state of the Cancel button
    queue,            \* GUI: callbacks scheduled with root.after(0, ...)
    yt_streams,       \* yt.streams, where menus are built in full
    menu,             \* the menu built from yt_streams, <<>> before
    all_streams,      \* console: the menu, as the kinds of its options
    choice,           \* console: the line read at the prompt last
    streams,          \* GUI: the fetch self.streams comes from (0 = [])
    tree,             \* GUI: the fetch the rows of the tree come from
    fetch_btn,        \* GUI: state of the Get Video Info button
    fetch,            \* GUI: per fetch, its thread and what was shown
    formats,          \* GUI: self.streams built from yt_streams, <<>> before
    bar               \* the progress display of the operation under way

vars == <<frontend, verbose, files, w, shown, exitCode, yt, downloading,
          download_thread, cancel_download, download_btn, cancel_btn, queue,
          yt_streams, menu, all_streams, choice, streams, tree, fetch_btn,
          fetch, formats, bar>>

guiVars == <<yt, downloading, download_thread, cancel_download,
             download_btn, cancel_btn, queue>>

menuVars == <<yt_streams, menu, formats>>
barVars == <<bar>>
promptVars == <<all_streams, choice>>
fetchVars == <<streams, tree, fetch_btn, fetch>>

(***************************************************************************)
(* Files.  `files` holds the temp names, which every session shares.  The  *)
(* file at a session's final destination path is the field `final` of the  *)
(* session's record: whether the session has put a file there.             *)
(***************************************************************************)
VideoTempC == "_video_temp"   \* console: {title}_video_temp.{ext}
AudioTempC == "_audio_temp"   \* console: {title}_audio_temp.{ext}
TempC      == "_temp"         \* console: {title}_temp.{ext}
TempVideo  == "temp_video"    \* GUI: temp_video
TempAudio  == "temp_audio"    \* GUI: temp_audio

(***************************************************************************)
(* Text.  A Python str is the sequence of its characters, so that taking   *)
(* the digits of a label, reading them as a number and writing a number as *)
(* a label are computed, not assumed.  None and '' are both <<>>: the code *)
(* only tests such values for truth.                                       *)
(***************************************************************************)
None == <<>>
DigitChars == <<"0", "1", "2", "3", "4", "5", "6", "7", "8", "9">>
IsDigit(c) == \E i \in 1..10 : DigitChars[i] = c
DigitValue(c) == (CHOOSE i \in 1..10 : DigitChars[i] = c) - 1

\* ''.join(filter(str.isdigit, x))
Digits(x) == SelectSeq(x, IsDigit)

\* int(d) of a string of digits.
RECURSIVE ToInt(_)
ToInt(d) ==
    IF d = <<>> THEN 0
    ELSE ToInt(SubSeq(d, 1, Len(d) - 1)) * 10 + DigitValue(d[Len(d)])

\* str(n) of a natural number.
RECURSIVE ToStr(_)
ToStr(n) ==
    IF n < 10 THEN <<DigitChars[n + 1]>>
    ELSE ToStr(n \div 10) \o <<DigitChars[(n % 10) + 1]>>

\* 'hd' in x.lower()
HasHd(x) ==
    \E i \in 1..(Len(x) - 1) : x[i] \in {"h", "H"} /\ x[i + 1] \in {"d", "D"}

P720  == <<"7", "2", "0", "p">>
P1080 == <<"1", "0", "8", "0", "p">>
P2160 == <<"2", "1", "6", "0", "p">>
Key1080hd == P1080 \o <<"_", "h", "d">>
Kbps == <<"k", "b", "p", "s">>
Abr128 == <<"1", "2", "8">> \o Kbps
Abr160 == <<"1", "6", "0">> \o Kbps

(***************************************************************************)
(* The streams pytubefix reports for a video: the fields of Stream the     *)
(* program reads.  Progressive streams are the 720p mp4 ones; audio-only   *)
(* streams have a bitrate label or none.                                   *)
(***************************************************************************)
VideoSamples ==
    {<<P720, "mp4", 30>>, <<P720, "mp4", 40>>, <<P720, "webm", 30>>,
     <<P1080, "mp4", 30>>, <<P1080, "mp4", 40>>, <<P1080, "mp4", 50>>,
     <<P1080, "webm", 40>>, <<P2160, "webm", 50>>}
AudioSamples == {<<None, 4>>, <<Abr128, 5>>, <<Abr128, 6>>, <<Abr160, 4>>}

VideoStream(res, sub, size) ==
    [type |-> "video", subtype |-> sub, resolution |-> res, abr |-> None,
     filesize |-> size, is_progressive |-> (res = P720 /\ sub = "mp4")]

AudioStream(abr, size) ==
    [type |-> "audio", subtype |-> "webm", resolution |-> None, abr |-> abr,
     filesize |-> size, is_progressive |-> FALSE]

\* The streams the catalogs of the model are made of: file sizes are in MB.
Streams ==
    {VideoStream(v[1], v[2], v[3]) : v \in VideoSamples}
    \cup {AudioStream(a[1], a[2]) : a \in AudioSamples}

\* yt.streams, of at most n streams.
StreamLists(n) == UNION {[1..k -> Streams] : k \in 0..n}

includes_video_track(s) == s.type = "video"
includes_audio_track(s) == s.type = "audio" \/ s.is_progressive

(***************************************************************************)
(* A dict, in insertion order: a sequence of <<key, value>> pairs.         *)
(***************************************************************************)
Has(d, k) == \E i \in 1..Len(d) : d[i][1] = k
Get(d, k) == d[CHOOSE i \in 1..Len(d) : d[i][1] = k][2]
Put(d, k, v) ==
    IF Has(d, k)
    THEN [i \in 1..Len(d) |-> IF d[i][1] = k THEN <<k, v>> ELSE d[i]]
    ELSE Append(d, <<k, v>>)

\* The order of Python tuples of numbers (a bool counts as 0 or 1).
RECURSIVE TupleLess(_, _)
TupleLess(a, b) ==
    IF a = <<>> \/ b = <<>> THEN a = <<>> /\ b # <<>>
    ELSE IF Head(a) = Head(b) THEN TupleLess(Tail(a), Tail(b))
    ELSE Head(a) < Head(b)

\* sorted(xs, key=Key, reverse=True), on the list ks of <<Key(x), x>>: a
\* stable sort, elements of equal key keep their order.
RECURSIVE InsertSorted(_, _)
InsertSorted(x, s) ==
    IF s = <<>> THEN <<x>>
    ELSE IF TupleLess(Head(s)[1], x[1]) THEN <<x>> \o s
    ELSE <<Head(s)>> \o InsertSorted(x, Tail(s))

RECURSIVE SortedReverse(_)
SortedReverse(ks) ==
    IF ks = <<>> THEN <<>>
    ELSE InsertSorted(ks[Len(ks)], SortedReverse(SubSeq(ks, 1, Len(ks) - 1)))

(***************************************************************************)
(* organize_streams.                                                       *)
(***************************************************************************)

\* ScanVideo keeping, for every resolution, the smaller file.
ScanVideoKeepSmaller(video_streams, stream, verb) ==
    IF ~verb /\ stream.subtype = "webm" THEN video_streams
    ELSE IF ~Has(video_streams, stream.resolution)
            \/ stream.filesize < Get(video_streams, stream.resolution).filesize
    THEN Put(video_streams, stream.resolution, stream)
    ELSE video_streams

\* ScanVideo without the test of the container.
ScanVideoNoFilter(video_streams, stream, verb) ==
    IF stream.resolution = P1080
    THEN IF ~Has(video_streams, Key1080hd)
         THEN Put(video_streams, Key1080hd, stream)
         ELSE IF stream.filesize < Get(video_streams, Key1080hd).filesize
         THEN Put(video_streams, P1080, stream)
         ELSE video_streams
    ELSE IF ~Has(video_streams, stream.resolution)
    THEN Put(video_streams, stream.resolution, stream)
    ELSE video_streams

\* ScanVideo taking a later 1080p stream that is not larger.
ScanVideoNotLarger(video_streams, stream, verb) ==
    IF ~verb /\ stream.subtype = "webm" THEN video_streams
    ELSE IF stream.resolution = P1080
    THEN IF ~Has(video_streams, Key1080hd)
         THEN Put(video_streams, Key1080hd, stream)
         ELSE IF stream.filesize <= Get(video_streams, Key1080hd).filesize
         THEN Put(video_streams, P1080, stream)
         ELSE video_streams
    ELSE IF ~Has(video_streams, stream.resolution)
    THEN Put(video_streams, stream.resolution, stream)
    ELSE video_streams

\* The loop body on a stream with a video track: video_streams after it.
ScanVideo(video_streams, stream, verb) ==
    IF ~verb /\ stream.subtype = "webm" THEN video_streams
    ELSE IF stream.resolution = P1080
    THEN IF ~Has(video_streams, Key1080hd)
         THEN Put(video_streams, Key1080hd, stream)
         ELSE IF stream.filesize < Get(video_streams, Key1080hd).filesize
         THEN Put(video_streams, P1080, stream)
         ELSE video_streams
    ELSE IF ~Has(video_streams, stream.resolution)
    THEN Put(video_streams, stream.resolution, stream)
    ELSE video_streams

\* best_audio after the loop body on an audio-only stream; <<>> is None.
ScanBestAudio(best_audio, stream) ==
    IF best_audio = <<>>
       \/ (stream.abr # None /\ best_audio[1].abr # None
           /\ ToInt(Digits(stream.abr)) > ToInt(Digits(best_audio[1].abr)))
    THEN <<stream>> ELSE best_audio

\* The first loop: video_streams, audio_streams and best_audio after the
\* first n streams.
RECURSIVE ScanStreams(_, _, _)
ScanStreams(yts, n, verb) ==
    IF n = 0
    THEN [video_streams |-> <<>>, audio_streams |-> <<>>, best_audio |-> <<>>]
    ELSE LET acc == ScanStreams(yts, n - 1, verb)
             stream == yts[n]
         IN IF includes_video_track(stream)
            THEN [acc EXCEPT !.video_streams = ScanVideo(@, stream, verb)]
            ELSE IF includes_audio_track(stream)
            THEN [acc EXCEPT !.best_audio = ScanBestAudio(@, stream),
                             !.audio_streams = Append(@, stream)]
            ELSE acc

\* ResolutionKey with the 'hd' mark before the number.
ResolutionKeyFlagFirst(x) == <<IF HasHd(x) THEN 1 ELSE 0, ToInt(Digits(x))>>

\* The sort key of a key of video_streams.
ResolutionKey(x) == <<ToInt(Digits(x)), IF HasHd(x) THEN 1 ELSE 0>>

\* ordered_streams.
OrderedStreams(video_streams) ==
    LET ks == [i \in 1..Len(video_streams) |->
                 <<ResolutionKey(video_streams[i][1]), video_streams[i][2]>>]
        sorted == SortedReverse(ks)
    IN [i \in 1..Len(sorted) |-> sorted[i][2]]

\* The key of a stream in audio_quality.
BitrateKey(stream) ==
    ToStr(ToInt(Digits(IF stream.abr # None THEN stream.abr
                       ELSE <<"1", "2", "8">>))) \o Kbps

\* AudioQuality keeping, for every bitrate, the first stream.
RECURSIVE AudioQualityKeepFirst(_, _)
AudioQualityKeepFirst(audio_streams, n) ==
    IF n = 0 THEN <<>>
    ELSE LET acc == AudioQualityKeepFirst(audio_streams, n - 1)
             stream == audio_streams[n]
             key == BitrateKey(stream)
         IN IF ~Has(acc, key) THEN Put(acc, key, stream) ELSE acc

\* audio_quality after the first n of the audio streams.
RECURSIVE AudioQuality(_, _)
AudioQuality(audio_streams, n) ==
    IF n = 0 THEN <<>>
    ELSE LET acc == AudioQuality(audio_streams, n - 1)
             stream == audio_streams[n]
             key == BitrateKey(stream)
         IN IF ~Has(acc, key) \/ stream.filesize < Get(acc, key).filesize
            THEN Put(acc, key, stream) ELSE acc

\* The audio streams sorted by bitrate.
SortedAudio(audio_quality) ==
    LET ks == [i \in 1..Len(audio_quality) |->
                 <<<<ToInt(Digits(audio_quality[i][1]))>>, audio_quality[i][2]>>]
        sorted == SortedReverse(ks)
    IN [i \in 1..Len(sorted) |-> sorted[i][2]]

\* The dict of a virtual stream.
VirtualStream(audio, fmt) ==
    [type |-> "audio", subtype |-> fmt,
     abr |-> IF audio.abr # None THEN audio.abr ELSE Abr160,
     filesize |-> audio.filesize, audio_codec |-> fmt,
     original_stream |-> audio]

\* virtual_streams: mp3 and aac for every audio stream, in order.
VirtualStreams(audio_streams) ==
    [i \in 1..(2 * Len(audio_streams)) |->
        VirtualStream(audio_streams[(i + 1) \div 2],
                      IF i % 2 = 1 THEN "mp3" ELSE "aac")]

\* organize_streams(yt, verbose): <<ordered_streams, audio_streams>>.
organize_streams(yts, verb) ==
    LET scan == ScanStreams(yts, Len(yts), verb)
        audio == SortedAudio(AudioQuality(scan.audio_streams,
                                          Len(scan.audio_streams)))
        virtual == VirtualStreams(audio)
    IN <<OrderedStreams(scan.video_streams),
         IF scan.best_audio # <<>>
         THEN IF verb THEN audio \o virtual
              ELSE SubSeq(virtual, 1, 2)
         ELSE audio>>

\* isinstance(stream, dict)
IsDict(stream) == "original_stream" \in DOMAIN stream

\* print_stream_options: the Quality column, row by row.
print_stream_options(video_streams, audio_streams) ==
    [i \in 1..Len(video_streams) |->
        IF video_streams[i].resolution = P1080 /\ i = 1
        THEN P1080 \o <<"+">> ELSE video_streams[i].resolution]
    \o [i \in 1..Len(audio_streams) |->
        IF IsDict(audio_streams[i]) THEN audio_streams[i].abr
        ELSE IF audio_streams[i].abr # None THEN audio_streams[i].abr
        ELSE Abr128]

(***************************************************************************)
(* update_formats of the GUI.  The queries on yt.streams are pytubefix's:  *)
(* filter keeps the streams that match, order_by drops the streams without *)
(* the attribute and sorts the others by the number in it, smallest first  *)
(* and stably, desc reverses the list, first is the first stream or None.  *)
(***************************************************************************)
Reverse(xs) == [i \in 1..Len(xs) |-> xs[Len(xs) + 1 - i]]

\* filter(type="video") and filter(only_audio=True).
IsVideoType(x) == x.type = "video"
IsOnlyAudio(x) == includes_audio_track(x) /\ ~includes_video_track(x)

\* order_by(attribute).desc() on the list ks of <<attribute of x, x>>: the
\* reverse of a stable ascending sort is the stable descending sort of the
\* reverse.
OrderByDesc(ks) ==
    LET has == SelectSeq(ks, LAMBDA k : k[1] # None)
        rev == Reverse(has)
        keyed == [i \in 1..Len(rev) |->
                    <<<<ToInt(Digits(rev[i][1]))>>, rev[i][2]>>]
        sorted == SortedReverse(keyed)
    IN [i \in 1..Len(sorted) |-> sorted[i][2]]

\* With the attribute resolution, and with the attribute abr.
ByResolution(xs) == [i \in 1..Len(xs) |-> <<xs[i].resolution, xs[i]>>]
ByAbr(xs) == [i \in 1..Len(xs) |-> <<xs[i].abr, xs[i]>>]

\* is_hd: int(resolution[:-1]) >= 1080, False where that is not a number.
IsHd(resolution) ==
    LET t == SubSeq(resolution, 1, Len(resolution) - 1)
    IN /\ t # <<>>
       /\ \A i \in 1..Len(t) : IsDigit(t[i])
       /\ ToInt(t) >= 1080

\* The first n of the sorted video streams, less those of a resolution seen
\* before.
RECURSIVE SeenFirst(_, _)
SeenFirst(all_video_streams, n) ==
    IF n = 0 THEN <<>>
    ELSE LET acc == SeenFirst(all_video_streams, n - 1)
             stream == all_video_streams[n]
         IN IF \E i \in 1..Len(acc) : acc[i].resolution = stream.resolution
            THEN acc ELSE Append(acc, stream)

\* The entry of self.streams of a video stream, with the row of the tree:
\* type, quality, format and size (a number of MB here, not its text).
VideoFormat(stream, best_audio) ==
    LET kind == IF IsHd(stream.resolution) THEN "Video (High Quality)"
                ELSE "Video"
    IN IF ~stream.is_progressive
       THEN [stream |-> stream, audio_stream |-> best_audio,
             is_adaptive |-> TRUE,
             values |-> <<kind, stream.resolution, "mp4",
                          stream.filesize
                            + (IF best_audio # <<>> THEN best_audio[1].filesize
                               ELSE 0)>>]
       ELSE [stream |-> stream, audio_stream |-> <<>>,
             is_adaptive |-> FALSE,
             values |-> <<kind, stream.resolution, stream.subtype,
                          stream.filesize>>]

\* The two entries of an audio stream.
AudioFormat(stream, fmt) ==
    [stream |-> stream, audio_stream |-> <<>>, is_adaptive |-> FALSE,
     values |-> <<IF fmt = "mp3" THEN "Audio (MP3)" ELSE "Audio (AAC)",
                  stream.abr, fmt, stream.filesize>>]

\* update_formats: self.streams, every entry with its row of the tree.
update_formats(yts) ==
    LET all_video_streams ==
            OrderByDesc(ByResolution(SelectSeq(yts, IsVideoType)))
        audio_streams == OrderByDesc(ByAbr(SelectSeq(yts, IsOnlyAudio)))
        best_audio == IF audio_streams # <<>> THEN <<audio_streams[1]>>
                      ELSE <<>>
        video_streams == SeenFirst(all_video_streams, Len(all_video_streams))
    IN [i \in 1..Len(video_streams) |->
           VideoFormat(video_streams[i], best_audio)]
       \o [i \in 1..(2 * Len(audio_streams)) |->
             AudioFormat(audio_streams[(i + 1) \div 2],
                         IF i % 2 = 1 THEN "mp3" ELSE "aac")]

\* The selectable kinds of option.
Kinds == {"adaptive", "progressive", "virtual", "rawaudio"}

(***************************************************************************)
(* A session's record.  Control state: pc, kind (of the selected option),  *)
(* stage (the download it is in), left (chunks the download still has).    *)
(* What its environment did: cancelAt (where it stood when the user        *)
(* cancelled, "none" if never), extra (chunks handled after that), fault   *)
(* (the failure that hit it, "none" if none), rc (the tool's exit status,  *)
(* -1 before), solo (no earlier session was still in flight at its start). *)
(* What it did: final (it has put a file at its final destination path),   *)
(* byCancel (it stopped on the cancellation), end (the way its control     *)
(* flow ended), endFiles (the temp files in the directory when it ended).  *)
(* GUI: sel (the fetch whose rows the user selected from), got (the fetch  *)
(* whose self.streams the worker took its option from, 0 before).          *)
(***************************************************************************)
Fresh == [pc |-> "idle", kind |-> "none", stage |-> "none", left |-> 0,
          cancelAt |-> "none", extra |-> 0, fault |-> "none", rc |-> -1,
          solo |-> TRUE, final |-> FALSE, byCancel |-> FALSE,
          end |-> "none", endFiles |-> {}, sel |-> 0, got |-> 0]

\* A session that is over: ended, and nothing of it left to run.
Over == [Fresh EXCEPT !.pc = "over"]

\* Where a session stands: the download it is in, else its control point.
Pos(r) == IF r.pc = "dl" THEN r.stage ELSE r.pc

\* The tool's outcomes: its exit status, and whether it left a file at its
\* output path.  A run that exits 0 has written its output; one that exits
\* nonzero, or is interrupted, may or may not have left a partial file.
ToolOutcomes == {<<0, TRUE>>, <<1, TRUE>>, <<1, FALSE>>}
WithOutput(r, out) == [r EXCEPT !.final = @ \/ out]

(***************************************************************************)
(* The console front end: download_video.                                  *)
(***************************************************************************)

\* ConExitStatus with the nonzero tool exit leaving the process with 0.
ConExitStatusToolOk(how) ==
    CASE how = "return"    -> 0
      [] how = "interrupt" -> 0
      [] how = "exception" -> 1
      [] how = "toolfail"  -> 0

\* The exit status of the process, by the way download_video is left:
\* "return" (it returns and main ends), "interrupt" (KeyboardInterrupt),
\* "exception" (any other Exception), "toolfail" (nonzero tool exit).
ConExitStatus(how) ==
    CASE how = "return"    -> 0
      [] how = "interrupt" -> 0
      [] how = "exception" -> 1
      [] how = "toolfail"  -> 1

\* The line printed last, as the outcome it presents.
ConMessage(how) ==
    CASE how = "return"    -> "success"
      [] how = "interrupt" -> "cancelled"
      [] how = "exception" -> "error"
      [] how = "toolfail"  -> "error"

\* ConCleanup removing the video temp file alone.
ConCleanupVideoOnly(fs) == fs \ {VideoTempC}

\* The finally block of the adaptive branch.
ConCleanup(fs) == fs \ {VideoTempC, AudioTempC}

\* What leaving download_video runs: the finally block when control is
\* inside the adaptive branch's try, nothing elsewhere.
ConUnwind(r, fs) ==
    IF r.kind = "adaptive" /\ r.pc \in {"dl", "proc", "explorer"}
    THEN ConCleanup(fs) ELSE fs

\* The kind of option a menu entry is, as download_video tells them apart:
\* a dict, a video stream that is not progressive, or a stream it downloads
\* as it is.
KindOf(stream) ==
    IF IsDict(stream) THEN "virtual"
    ELSE IF includes_video_track(stream)
    THEN IF stream.is_progressive THEN "progressive" ELSE "adaptive"
    ELSE "rawaudio"

\* all_streams = video_streams + audio_streams, as the kinds of its entries,
\* for the videos of at most MaxSources streams.
ConMenus(verb) ==
    {LET m   == organize_streams(l, verb)
         all == m[1] \o m[2]
     IN [i \in 1..Len(all) |-> KindOf(all[i])] : l \in StreamLists(MaxSources)}

\* The lines typed at the prompt.
LineChars == {"0", "1", "2", "3", "-", "x"}
Lines == UNION {[1..n -> LineChars] : n \in 0..MaxLine}

\* ParseInt reading a negative number as its absolute value.
ParseIntUnsigned(line) ==
    LET neg  == line # <<>> /\ line[1] = "-"
        body == IF neg THEN Tail(line) ELSE line
    IN IF body # <<>> /\ \A i \in 1..Len(body) : IsDigit(body[i])
       THEN <<TRUE, ToInt(body)>>
       ELSE <<FALSE, 0>>

\* int(line): <<TRUE, the number>>, or <<FALSE, 0>> where it raises
\* ValueError.
ParseInt(line) ==
    LET neg  == line # <<>> /\ line[1] = "-"
        body == IF neg THEN Tail(line) ELSE line
    IN IF body # <<>> /\ \A i \in 1..Len(body) : IsDigit(body[i])
       THEN <<TRUE, IF neg THEN 0 - ToInt(body) ELSE ToInt(body)>>
       ELSE <<FALSE, 0>>

\* 1 <= choice <= len(all_streams)
InRange(c, all) == 1 <= c /\ c <= Len(all)

\* Whether the prompt loop breaks on a line.
Accepts(line, all) == ParseInt(line)[1] /\ InRange(ParseInt(line)[2], all)

\* The process ends: r is the session's record, how the way out, fs the
\* download directory it leaves.
ConEnd(r, how, fs) ==
    /\ files' = fs
    /\ w' = [w EXCEPT ![1] = [r EXCEPT !.pc = "ended", !.end = how,
                                       !.endFiles = fs]]
    /\ shown' = [shown EXCEPT ![1] = @ \cup {ConMessage(how)}]
    /\ exitCode' = ConExitStatus(how)
    /\ UNCHANGED <<frontend, verbose, guiVars, menuVars, barVars, promptVars, fetchVars>>

ConStep(r, fs) ==
    /\ files' = fs
    /\ w' = [w EXCEPT ![1] = r]
    /\ UNCHANGED <<frontend, verbose, shown, exitCode, guiVars, menuVars, barVars,
                   promptVars, fetchVars>>

\* The completion message is printed and open_file_explorer called.
ConCompleted(r, fs) ==
    /\ files' = fs
    /\ w' = [w EXCEPT ![1] = [r EXCEPT !.pc = "explorer", !.stage = "none"]]
    /\ shown' = [shown EXCEPT ![1] = @ \cup {ConMessage("return")}]
    /\ UNCHANGED <<frontend, verbose, exitCode, guiVars, menuVars, barVars, promptVars,
                   fetchVars>>

\* A step before the download: r is the session's record, all the menu, c
\* the line read last.
ConMenuStep(r, all, c) ==
    /\ w' = [w EXCEPT ![1] = r]
    /\ all_streams' = all
    /\ choice' = c
    /\ UNCHANGED <<frontend, verbose, files, shown, exitCode, guiVars, menuVars, barVars,
                   fetchVars>>

\* YouTube(url), print_video_info, organize_streams, print_stream_options.
ConFetchOk ==
    /\ frontend = "console" /\ w[1].pc = "fetch"
    /\ \E m \in ConMenus(verbose) :
          ConMenuStep([w[1] EXCEPT !.pc = "prompt"], m, choice)

ConFetchFail ==
    /\ frontend = "console" /\ w[1].pc = "fetch"
    /\ ConEnd([w[1] EXCEPT !.fault = "fetch"], "exception", files)

\* No line read, or the line read last no longer of use.
NoChoice == [read |-> FALSE, line |-> <<>>]

\* The prompt: input() returns a line.
ConReadLine ==
    /\ frontend = "console" /\ w[1].pc = "prompt"
    /\ \E line \in Lines :
          ConMenuStep([w[1] EXCEPT !.pc = "read"], all_streams,
                      [read |-> TRUE, line |-> line])

\* The prompt: a line that is no number, or a number outside 1..N.  The
\* message is printed and the loop goes round; the next input() replaces
\* the line.
ConPromptInvalid ==
    /\ frontend = "console" /\ w[1].pc = "read"
    /\ ~Accepts(choice.line, all_streams)
    /\ w' = [w EXCEPT ![1].pc = "prompt"]
    /\ choice' = NoChoice
    /\ shown' = [shown EXCEPT ![1] = @ \cup {"invalid"}]
    /\ UNCHANGED <<frontend, verbose, files, exitCode, all_streams, guiVars,
                   menuVars, barVars, fetchVars>>

\* The prompt: end of input (EOFError is neither ValueError nor
\* KeyboardInterrupt).
ConPromptEOF ==
    /\ frontend = "console" /\ w[1].pc = "prompt"
    /\ ConEnd([w[1] EXCEPT !.fault = "eof"], "exception", files)

\* The prompt: a number in 1..N; selected_stream = all_streams[choice-1].
ConSelect ==
    /\ frontend = "console" /\ w[1].pc = "read"
    /\ Accepts(choice.line, all_streams)
    /\ ConMenuStep([w[1] EXCEPT !.pc = "selected",
                                !.kind = all_streams[ParseInt(choice.line)[2]]],
                   all_streams, choice)

\* Lines 497-522 on a virtual option in verbose mode: selected_stream.abr
\* on a dict raises AttributeError.
ConPrepareCrash ==
    /\ frontend = "console" /\ w[1].pc = "selected"
    /\ w[1].kind = "virtual" /\ verbose
    /\ ConEnd([w[1] EXCEPT !.fault = "crash"], "exception", files)

\* ConFirstTarget with the adaptive branch starting at its audio download.
ConFirstTargetAudioFirst(k) ==
    CASE k = "adaptive" -> <<{AudioTempC}, "audio">>
      [] k = "virtual"  -> <<{TempC}, "src">>
      [] OTHER          -> <<{}, "direct">>

\* The first file a selection downloads to, and the download's name.
ConFirstTarget(k) ==
    CASE k = "adaptive" -> <<{VideoTempC}, "video">>
      [] k = "virtual"  -> <<{TempC}, "src">>
      [] OTHER          -> <<{}, "direct">>

\* Lines 497-551 / 582-607: the first download starts.
ConBeginDownload(n) ==
    /\ frontend = "console" /\ w[1].pc = "selected"
    /\ ~(w[1].kind = "virtual" /\ verbose)
    /\ LET t == ConFirstTarget(w[1].kind) IN
        ConStep([w[1] EXCEPT !.pc = "dl", !.stage = t[2], !.left = n,
                             !.final = (t[2] = "direct")],
                files \cup t[1])

\* One chunk is written and the progress bar updated.
ConChunk ==
    /\ frontend = "console" /\ w[1].pc = "dl" /\ w[1].left > 0
    /\ ConStep([w[1] EXCEPT !.left = @ - 1], files)

\* A download returns: the next download, the tool, or the end.
ConDownloadReturns(n) ==
    /\ frontend = "console" /\ w[1].pc = "dl" /\ w[1].left = 0
    /\ CASE w[1].stage = "video" ->
               ConStep([w[1] EXCEPT !.stage = "audio", !.left = n],
                       files \cup {AudioTempC})
          [] w[1].stage \in {"audio", "src"} ->
               ConStep([w[1] EXCEPT !.pc = "proc", !.stage = "none"], files)
          [] OTHER -> ConCompleted(w[1], files)

\* A download raises (network or extraction failure).
ConDownloadFails ==
    /\ frontend = "console" /\ w[1].pc = "dl"
    /\ ConEnd([w[1] EXCEPT !.fault = "source"], "exception",
              ConUnwind(w[1], files))

\* process_with_progress / process_audio return the tool's exit status.
\* The transcode branch removes its temp file on status 0 alone.
ConToolExits(o) ==
    /\ frontend = "console" /\ w[1].pc = "proc"
    /\ LET r == WithOutput([w[1] EXCEPT !.rc = o[1]], o[2])
       IN IF o[1] = 0
          THEN ConCompleted(r, IF w[1].kind = "adaptive" THEN files
                                                         ELSE files \ {TempC})
          ELSE ConEnd(r, "toolfail", ConUnwind(w[1], files))

\* open_file_explorer returns, and download_video with it.
ConExplorerReturns ==
    /\ frontend = "console" /\ w[1].pc = "explorer"
    /\ ConEnd(w[1], "return", ConUnwind(w[1], files))

\* open_file_explorer raises (no program to open the folder with).
ConExplorerFails ==
    /\ frontend = "console" /\ w[1].pc = "explorer"
    /\ ConEnd([w[1] EXCEPT !.fault = "explorer"], "exception",
              ConUnwind(w[1], files))

\* ffprobe / ffmpeg cannot be run: subprocess raises.
ConToolMissing ==
    /\ frontend = "console" /\ w[1].pc = "proc"
    /\ ConEnd([w[1] EXCEPT !.fault = "tool_missing"], "exception",
              ConUnwind(w[1], files))

\* KeyboardInterrupt, wherever download_video stands.  During the tool's
\* run the tool is interrupted too and may leave a partial output.  Once
\* the completion message is out the session's work is no longer stopped
\* by it.
ConInterrupt(out) ==
    /\ frontend = "console" /\ w[1].pc \notin {"idle", "ended"}
    /\ out => w[1].pc = "proc"
    /\ ConEnd(WithOutput([w[1] EXCEPT !.cancelAt = Pos(w[1]),
                                      !.byCancel = (w[1].pc # "explorer")],
                         out),
              "interrupt", ConUnwind(w[1], files))

ConNext ==
    \/ ConFetchOk
    \/ ConFetchFail
    \/ ConReadLine
    \/ ConPromptInvalid
    \/ ConPromptEOF
    \/ ConSelect
    \/ ConPrepareCrash
    \/ \E n \in 1..MaxChunks : ConBeginDownload(n)
    \/ ConChunk
    \/ \E n \in 1..MaxChunks : ConDownloadReturns(n)
    \/ ConDownloadFails
    \/ \E o \in ToolOutcomes : ConToolExits(o)
    \/ ConToolMissing
    \/ ConExplorerReturns
    \/ ConExplorerFails
    \/ \E out \in BOOLEAN : ConInterrupt(out)


(***************************************************************************)
(* The Tk front end: YouTubeDownloaderGUI.  The event loop runs the button *)
(* commands and, in the order they were scheduled, the callbacks given to  *)
(* root.after(0, ...); each worker thread runs download_selected_format.   *)
(***************************************************************************)

\* The kinds of option update_formats lists.
GuiMenuKinds == {"adaptive", "progressive", "virtual"}

\* threading.Thread.is_alive of a session's worker.
IsAlive(s) == w[s].pc \notin {"idle", "ended", "over"}

\* The session a new worker gets: the first one not started yet.
NextSession ==
    CHOOSE s \in Sessions : w[s].pc = "idle" /\ \A u \in 1..(s-1) : w[u].pc # "idle"

Schedule(q, cbs) == q \o cbs

Fetches == 1..MaxFetches

\* A fetch: pc of its thread ("idle" before it starts, "running", "done"),
\* how pytubefix answered, and what the user was shown for it.
NoFetch == [pc |-> "idle", how |-> "none", shown |-> {}]

\* How a fetch goes: "ok"; "bad_url", YouTube(url) raises; "unavailable",
\* YouTube(url) returns an object whose title and streams raise when read
\* (pytubefix asks the network when a property is first read).
FetchOutcomes == {"ok", "bad_url", "unavailable"}

\* The fetch a click on Get Video Info starts: the first not started yet.
NextFetch ==
    CHOOSE g \in Fetches : fetch[g].pc = "idle"
                           /\ \A h \in 1..(g-1) : fetch[h].pc # "idle"

\* fetch_video_info and the callbacks it schedules, on success and with no
\* session started yet, as one step.
GuiFetch ==
    /\ frontend = "gui" /\ yt = 0 /\ fetch_btn = "normal"
    /\ yt' = NextFetch
    /\ streams' = NextFetch
    /\ tree' = NextFetch
    /\ fetch' = [fetch EXCEPT ![NextFetch] =
                    [pc |-> "done", how |-> "ok", shown |-> {"loaded"}]]
    /\ UNCHANGED <<frontend, verbose, files, w, shown, exitCode, downloading,
                   download_thread, cancel_download, download_btn, cancel_btn,
                   queue, fetch_btn, menuVars, barVars, promptVars>>

\* fetch_video_info, the click: the button is disabled and the thread
\* started.
GuiFetchClick ==
    /\ frontend = "gui" /\ fetch_btn = "normal"
    /\ \E g \in Fetches : fetch[g].pc = "idle"
    /\ fetch_btn' = "disabled"
    /\ fetch' = [fetch EXCEPT ![NextFetch].pc = "running"]
    /\ UNCHANGED <<frontend, verbose, files, w, shown, exitCode, guiVars,
                   streams, tree, menuVars, barVars, promptVars>>

\* The callbacks a fetch thread schedules.  update_video_info and the
\* clearing of the status text touch labels alone and are left out.
FetchCallbacks == {"update_formats", "msg_loaded", "msg_error",
                   "fetch_btn_normal"}

\* fetch, the thread of fetch_video_info.
FetchThread(g, how) ==
    /\ frontend = "gui" /\ fetch[g].pc = "running"
    /\ fetch' = [fetch EXCEPT ![g].pc = "done", ![g].how = how]
    /\ IF how = "bad_url"
       THEN /\ queue' = Schedule(queue, << <<"msg_error", g>>,
                                           <<"fetch_btn_normal", g>> >>)
            /\ UNCHANGED yt
       ELSE /\ queue' = Schedule(queue, << <<"update_formats", g>>,
                                           <<"msg_loaded", g>>,
                                           <<"fetch_btn_normal", g>> >>)
            /\ yt' = g
    /\ UNCHANGED <<frontend, verbose, files, w, shown, exitCode, downloading,
                   download_thread, cancel_download, download_btn, cancel_btn,
                   streams, tree, fetch_btn, menuVars, barVars, promptVars>>

\* A callback of a fetch, run by the event loop.  update_formats empties
\* the tree, reads self.yt.streams, and then fills self.streams and the
\* tree; where the read raises, the tree stays empty and self.streams as it
\* was.
RunFetchCallback(cb) ==
    /\ IF cb[1] = "update_formats"
       THEN IF fetch[yt].how = "ok"
            THEN streams' = yt /\ tree' = yt
            ELSE tree' = 0 /\ UNCHANGED streams
       ELSE UNCHANGED <<streams, tree>>
    /\ fetch_btn' = IF cb[1] = "fetch_btn_normal" THEN "normal" ELSE fetch_btn
    /\ fetch' = [fetch EXCEPT ![cb[2]].shown =
                    @ \cup (CASE cb[1] = "msg_loaded" -> {"loaded"}
                              [] cb[1] = "msg_error"  -> {"error"}
                              [] OTHER                -> {})]

\* What start_download asks before it starts a session: self.yt and
\* self.streams are set, a row of the tree is selected; and the Download
\* button takes clicks.
StartAccepted ==
    yt # 0 /\ streams # 0 /\ tree # 0 /\ download_btn = "normal"

\* start_download, on the selected option of kind k.
GuiStartDownload(k) ==
    /\ frontend = "gui"
    /\ StartAccepted
    /\ \E s \in Sessions : w[s].pc = "idle"
    /\ k \in GuiMenuKinds
    /\ download_btn' = "disabled"
    /\ cancel_btn' = "normal"
    /\ cancel_download' = FALSE
    /\ downloading' = TRUE
    /\ download_thread' = NextSession
    /\ w' = [w EXCEPT ![NextSession] =
                [Fresh EXCEPT !.pc = "begin", !.kind = k, !.sel = tree,
                              !.solo = \A u \in Sessions :
                                          w[u].pc \in {"idle", "over"}]]
    /\ UNCHANGED <<frontend, verbose, files, shown, exitCode, yt, queue,
                   menuVars, barVars, promptVars, fetchVars>>

\* cancel_download_action.
GuiCancelClick ==
    /\ frontend = "gui"
    /\ cancel_btn = "normal"
    /\ IF downloading /\ download_thread # 0 /\ IsAlive(download_thread)
       THEN /\ cancel_download' = TRUE
            /\ cancel_btn' = "disabled"
            /\ w' = [w EXCEPT ![download_thread].cancelAt =
                        IF @ = "none" THEN Pos(w[download_thread]) ELSE @]
       ELSE UNCHANGED <<cancel_download, cancel_btn, w>>
    /\ UNCHANGED <<frontend, verbose, files, shown, exitCode, yt, downloading,
                   download_thread, download_btn, queue, menuVars, barVars, promptVars,
                   fetchVars>>

\* reset_download_state.
ResetDownloadState ==
    /\ downloading' = FALSE
    /\ download_thread' = 0
    /\ cancel_download' = FALSE
    /\ download_btn' = "normal"
    /\ cancel_btn' = "disabled"

\* The outcome a scheduled callback presents, if any.
Presents(cb) ==
    CASE cb = "show_success"     -> {"success"}
      [] cb = "show_error"       -> {"error"}
      [] cb = "status_cancelled" -> {"cancelled"}
      [] OTHER                   -> {}

\* Whether cb is the last thing session s leaves to the event loop: its
\* worker has ended and q holds no other callback of it.
LastOf(cb, q) ==
    /\ w[cb[2]].pc = "ended"
    /\ \A i \in 1..Len(q) : q[i][1] \in FetchCallbacks \/ q[i][2] # cb[2]

\* The event loop runs the callback scheduled first.  A session's record
\* and the outcomes shown for it are history: they are kept until the last
\* callback of the session has run; from then on the session is over.
GuiRunCallback ==
    /\ frontend = "gui"
    /\ queue # <<>>
    /\ queue' = Tail(queue)
    /\ LET cb == Head(queue) IN
         IF cb[1] \in FetchCallbacks
         THEN /\ RunFetchCallback(cb)
              /\ UNCHANGED <<downloading, download_thread, cancel_download,
                             download_btn, cancel_btn, w, shown>>
         ELSE /\ IF cb[1] = "reset"
                 THEN ResetDownloadState
                 ELSE UNCHANGED <<downloading, download_thread,
                                  cancel_download, download_btn, cancel_btn>>
              /\ IF LastOf(cb, Tail(queue))
                 THEN /\ w' = [w EXCEPT ![cb[2]] = Over]
                      /\ shown' = [shown EXCEPT ![cb[2]] = {}]
                 ELSE /\ shown' = [shown EXCEPT ![cb[2]] =
                                      @ \cup Presents(cb[1])]
                      /\ UNCHANGED w
              /\ UNCHANGED fetchVars
    /\ UNCHANGED <<frontend, verbose, files, exitCode, yt, menuVars, barVars,
                   promptVars>>

\* A worker's step: r its record, fs the download directory, cbs what it
\* schedules.
WStep(s, r, fs, cbs) ==
    /\ files' = fs
    /\ w' = [w EXCEPT ![s] = r]
    /\ queue' = Schedule(queue, cbs)
    /\ UNCHANGED <<frontend, verbose, shown, exitCode, yt, downloading,
                   download_thread, cancel_download, download_btn, cancel_btn,
                   menuVars, barVars, promptVars, fetchVars>>

\* WEnd without the finally: nothing schedules reset_download_state.
WEndNoReset(s, r, how, fs, cbs) ==
    WStep(s, [r EXCEPT !.pc = "ended", !.end = how, !.endFiles = fs], fs,
          cbs \o << <<IF how = "raised" THEN "show_error" ELSE "show_success", s>> >>)

\* download_selected_format ends: after a normal return of the download
\* method it schedules show_success, after an exception show_error; its
\* finally schedules reset_download_state.
WEnd(s, r, how, fs, cbs) ==
    WStep(s, [r EXCEPT !.pc = "ended", !.end = how, !.endFiles = fs], fs,
          cbs \o << <<IF how = "raised" THEN "show_error" ELSE "show_success", s>>,
                    <<"reset", s>> >>)

\* An exception inside a download method.  download_adaptive_video catches
\* the cancellation, schedules the status text and a reset and goes on to
\* its cleanup; everything else reaches download_selected_format.
WRaise(s, r, cancelled, fs) ==
    IF r.kind = "adaptive" /\ cancelled
    THEN WStep(s, [r EXCEPT !.pc = "cancel_cleanup", !.byCancel = TRUE], fs,
               << <<"status_cancelled", s>>, <<"reset", s>> >>)
    ELSE WEnd(s, [r EXCEPT !.byCancel = cancelled], "raised", fs, <<>>)

\* GuiFirstTarget with every option downloaded to a temp file for the tool.
GuiFirstTargetAllTemp(k) ==
    CASE k = "adaptive" -> <<{TempVideo}, "video">>
      [] OTHER          -> <<{TempAudio}, "src">>

\* The first file a selection downloads to, and the download's name.
GuiFirstTarget(k) ==
    CASE k = "adaptive" -> <<{TempVideo}, "video">>
      [] k = "virtual"  -> <<{TempAudio}, "src">>
      [] OTHER          -> <<{}, "direct">>

\* The worker takes its option, self.streams[format_idx] and the row
\* format_idx of the tree, and starts its first download.  With no row
\* left in the tree the index raises.
WBeginDownload(s, n) ==
    /\ frontend = "gui" /\ w[s].pc = "begin"
    /\ LET t == GuiFirstTarget(w[s].kind)
           r == [w[s] EXCEPT !.got = streams]
       IN IF tree = 0
          THEN WEnd(s, [r EXCEPT !.fault = "index"], "raised", files, <<>>)
          ELSE WStep(s, [r EXCEPT !.pc = "dl", !.stage = t[2], !.left = n,
                                  !.final = (t[2] = "direct")],
                     files \cup t[1], <<>>)

\* One chunk is written, then the progress callback checks the flag.
WChunk(s) ==
    /\ frontend = "gui" /\ w[s].pc = "dl" /\ w[s].left > 0
    /\ LET r == [w[s] EXCEPT !.left = @ - 1,
                             !.extra = IF w[s].cancelAt # "none" THEN @ + 1 ELSE @]
       IN IF cancel_download
          THEN WRaise(s, r, TRUE, files)
          ELSE WStep(s, r, files, <<>>)

\* A download raises (network or extraction failure).
WDownloadFails(s) ==
    /\ frontend = "gui" /\ w[s].pc = "dl"
    /\ WRaise(s, [w[s] EXCEPT !.fault = "source"], FALSE, files)

\* A download returns.  download_adaptive_video checks the flag after each
\* of its two downloads; download_audio and download_video do not.
WDownloadReturns(s, n) ==
    /\ frontend = "gui" /\ w[s].pc = "dl" /\ w[s].left = 0
    /\ CASE w[s].stage = "video" ->
               IF cancel_download
               THEN WRaise(s, w[s], TRUE, files)
               ELSE WStep(s, [w[s] EXCEPT !.stage = "audio", !.left = n],
                          files \cup {TempAudio}, <<>>)
          [] w[s].stage = "audio" ->
               IF cancel_download
               THEN WRaise(s, w[s], TRUE, files)
               ELSE WStep(s, [w[s] EXCEPT !.pc = "proc"], files, <<>>)
          [] w[s].stage = "src" ->
               WStep(s, [w[s] EXCEPT !.pc = "proc"], files, <<>>)
          [] OTHER -> WEnd(s, w[s], "ok", files, <<>>)

\* os.remove of the temp inputs after process.wait(): a missing file
\* raises.  The result is <<the directory left, whether it raised>>.
GuiRemoveInputs(k, fs) ==
    IF k = "adaptive"
    THEN IF TempVideo \notin fs THEN <<fs, TRUE>>
         ELSE IF TempAudio \notin fs THEN <<fs \ {TempVideo}, TRUE>>
         ELSE <<fs \ {TempVideo, TempAudio}, FALSE>>
    ELSE IF TempAudio \notin fs THEN <<fs, TRUE>>
         ELSE <<fs \ {TempAudio}, FALSE>>

\* The tool ends; its exit status is not read.
WToolExits(s, o) ==
    /\ frontend = "gui" /\ w[s].pc = "proc"
    /\ LET r   == WithOutput([w[s] EXCEPT !.rc = o[1]], o[2])
           rem == GuiRemoveInputs(w[s].kind, files)
       IN IF rem[2]
          THEN WRaise(s, [r EXCEPT !.fault = "remove"], FALSE, rem[1])
          ELSE WEnd(s, r, "ok", rem[1], <<>>)

\* ffmpeg cannot be run: subprocess.Popen raises.
WToolMissing(s) ==
    /\ frontend = "gui" /\ w[s].pc = "proc"
    /\ WRaise(s, [w[s] EXCEPT !.fault = "tool_missing"], FALSE, files)

\* GuiCancelCleanup with the loop over the video file alone.
GuiCancelCleanupVideoOnly(fs) == fs \ {TempVideo}

\* The cancel handler's cleanup loop.
GuiCancelCleanup(fs) == fs \ {TempVideo, TempAudio}

\* Whether the local audio_file of download_adaptive_video is bound: it is
\* assigned after the video download and the check that follows it.
AudioFileBound(r) == r.stage # "video"

\* The rest of the cancel handler of download_adaptive_video.  Naming
\* audio_file while it is unbound raises UnboundLocalError, and nothing is
\* removed.
WCancelCleanup(s) ==
    /\ frontend = "gui" /\ w[s].pc = "cancel_cleanup"
    /\ IF ~AudioFileBound(w[s])
       THEN WEnd(s, [w[s] EXCEPT !.fault = "unbound"], "raised", files, <<>>)
       ELSE WEnd(s, w[s], "cancelled", GuiCancelCleanup(files), <<>>)

GuiNext ==
    \/ GuiFetch
    \/ \E k \in Kinds : GuiStartDownload(k)
    \/ GuiCancelClick
    \/ GuiRunCallback
    \/ \E s \in Sessions, n \in 1..MaxChunks : WBeginDownload(s, n)
    \/ \E s \in Sessions : WChunk(s)
    \/ \E s \in Sessions : WDownloadFails(s)
    \/ \E s \in Sessions, n \in 1..MaxChunks : WDownloadReturns(s, n)
    \/ \E s \in Sessions, o \in ToolOutcomes : WToolExits(s, o)
    \/ \E s \in Sessions : WToolMissing(s)
    \/ \E s \in Sessions : WCancelCleanup(s)

(***************************************************************************)
(* Progress.  One operation that reports progress at a time: the console's *)
(* download bar (DownloadProgress), its bars for the merge and for the     *)
(* conversion (process_with_progress, process_audio, without -v), and the  *)
(* GUI's three downloads, whose callbacks schedule update_progress on the  *)
(* event loop.  Sizes are in chunks of one unit; the GUI's percentages are *)
(* floats, kept here in whole percents (rounded down).  A line of the tool *)
(* that is no progress line, or whose number does not parse, changes       *)
(* nothing and is left out.                                                *)
(***************************************************************************)
MaxSize == 2      \* file size of a stream
MaxOver == 1      \* bytes a download delivers beyond the announced file size
MaxTotal == 2     \* frames, or seconds, the tool is expected to process
MaxCount == 3     \* frames, or seconds, the tool reports in all
MaxPending == 2   \* update_progress callbacks waiting on the event loop

Min(a, b) == IF a < b THEN a ELSE b

\* No operation reports progress.
NoBar ==
    [op |-> "none", phase |-> "none", total |-> 0, audio |-> 0, count |-> 0,
     n |-> 0, last |-> 0, pending |-> <<>>, proc |-> "none"]

\* The display takes the value p: n is what it shows, last what it showed
\* before.
Report(b, p) == [b EXCEPT !.n = p, !.last = b.n]

\* tqdm's percentage of n out of total; past the total tqdm drops it and
\* shows the count alone, so the percentage shown last stays.
TqdmPercent(was, n, total) ==
    IF n <= total THEN (n * 100) \div total ELSE was

\* ToolPercent taking an unknown total for a finished run.
ToolPercentUnknownFull(was, count, total) ==
    IF total > 0 THEN Min((count * 100) \div total, 100) ELSE 100

\* pbar.n after a progress line of the tool: min(int(count / total * 100),
\* 100) where the total is known, untouched otherwise.
ToolPercent(was, count, total) ==
    IF total > 0 THEN Min((count * 100) \div total, 100) ELSE was

\* The console starts a download: the bar is made at the first chunk.
ConBarDownload(size) ==
    /\ frontend = "console" /\ bar.op = "none"
    /\ bar' = [NoBar EXCEPT !.op = "con_download", !.phase = "download",
                            !.total = size]
    /\ UNCHANGED <<frontend, verbose, files, w, shown, exitCode, guiVars,
                   menuVars, promptVars, fetchVars>>

\* DownloadProgress.__call__: pbar.update(len(chunk)).
ConBarChunk(c) ==
    /\ bar.op = "con_download" /\ bar.phase = "download"
    /\ bar.count + c <= bar.total + MaxOver
    /\ bar' = [Report(bar, TqdmPercent(bar.n, bar.count + c, bar.total))
                  EXCEPT !.count = bar.count + c]
    /\ UNCHANGED <<frontend, verbose, files, w, shown, exitCode, guiVars,
                   menuVars, promptVars, fetchVars>>

\* The download returns; complete() closes the bar.
ConBarComplete ==
    /\ bar.op = "con_download" /\ bar.phase = "download"
    /\ bar.count >= bar.total
    /\ bar' = [bar EXCEPT !.phase = "closed"]
    /\ UNCHANGED <<frontend, verbose, files, w, shown, exitCode, guiVars,
                   menuVars, promptVars, fetchVars>>

\* process_with_progress or process_audio without -v: the total is what
\* ffprobe gave, 0 where it gave nothing usable; the bar starts at 0 and
\* the tool is started.
ConBarTool(op, total) ==
    /\ frontend = "console" /\ ~verbose /\ bar.op = "none"
    /\ bar' = [NoBar EXCEPT !.op = op, !.phase = "loop", !.total = total,
                            !.proc = "running"]
    /\ UNCHANGED <<frontend, verbose, files, w, shown, exitCode, guiVars,
                   menuVars, promptVars, fetchVars>>

\* The loop reads a progress line: the tool's counter has grown by d.
ConBarLine(d) ==
    /\ bar.op \in {"con_remux", "con_transcode"} /\ bar.phase = "loop"
    /\ bar.count + d <= MaxCount
    /\ bar' = [Report(bar, ToolPercent(bar.n, bar.count + d, bar.total))
                  EXCEPT !.count = bar.count + d]
    /\ UNCHANGED <<frontend, verbose, files, w, shown, exitCode, guiVars,
                   menuVars, promptVars, fetchVars>>

\* The tool terminates; what it wrote before may still be read.
BarToolExits ==
    /\ bar.proc = "running"
    /\ bar' = [bar EXCEPT !.proc = "exited"]
    /\ UNCHANGED <<frontend, verbose, files, w, shown, exitCode, guiVars,
                   menuVars, promptVars, fetchVars>>

\* readline gives nothing and poll() gives the exit status: the loop ends,
\* pbar.n = 100 and the bar is closed.
ConBarLoopEnds ==
    /\ bar.op \in {"con_remux", "con_transcode"} /\ bar.phase = "loop"
    /\ bar.proc = "exited"
    /\ bar' = [Report(bar, 100) EXCEPT !.phase = "closed"]
    /\ UNCHANGED <<frontend, verbose, files, w, shown, exitCode, guiVars,
                   menuVars, promptVars, fetchVars>>

\* start_download and the worker's first step: progress_var is 0 and the
\* first download of the operation begins.  audio is the size of the audio
\* stream of an adaptive download.
GuiBarStart(op, size, audio) ==
    /\ frontend = "gui" /\ bar.op = "none"
    /\ (op = "gui_adaptive") = (audio > 0)
    /\ bar' = [NoBar EXCEPT !.op = op,
                            !.phase = IF op = "gui_audio" THEN "audio"
                                      ELSE "video",
                            !.total = size, !.audio = audio]
    /\ UNCHANGED <<frontend, verbose, files, w, shown, exitCode, guiVars,
                   menuVars, promptVars, fetchVars>>

\* The size of the stream being downloaded.
BarStreamSize(b) ==
    IF b.op = "gui_adaptive" /\ b.phase = "audio" THEN b.audio ELSE b.total

\* The percentage an on_progress callback computes, downloaded being
\* stream.filesize - bytes_remaining.
GuiPercent(b, downloaded) ==
    CASE b.op = "gui_video" -> (downloaded * 100) \div b.total
      [] b.op = "gui_audio" -> (downloaded * 50) \div b.total
      [] b.op = "gui_adaptive" /\ b.phase = "video" ->
             (downloaded * 40) \div (b.total + b.audio)
      [] b.op = "gui_adaptive" /\ b.phase = "audio" ->
             ((b.total + downloaded) * 70) \div (b.total + b.audio)

\* on_progress of the download under way: a chunk of length c has arrived
\* and update_progress is scheduled with the percentage.
GuiBarChunk(c) ==
    /\ bar.op \in {"gui_video", "gui_audio", "gui_adaptive"}
    /\ bar.phase \in {"video", "audio"}
    /\ bar.count + c <= BarStreamSize(bar) + MaxOver
    /\ Len(bar.pending) < MaxPending
    /\ bar' = [bar EXCEPT !.count = bar.count + c,
                          !.pending = Append(@, GuiPercent(bar, bar.count + c))]
    /\ UNCHANGED <<frontend, verbose, files, w, shown, exitCode, guiVars,
                   menuVars, promptVars, fetchVars>>

\* stream.download returns: the next download of an adaptive operation
\* begins, the tool is started, or (download_video) the operation is over.
GuiBarDownloadReturns ==
    /\ bar.op \in {"gui_video", "gui_audio", "gui_adaptive"}
    /\ bar.phase \in {"video", "audio"}
    /\ bar.count >= BarStreamSize(bar)
    /\ bar' = IF bar.op = "gui_video"
              THEN [bar EXCEPT !.phase = "done"]
              ELSE IF bar.op = "gui_adaptive" /\ bar.phase = "video"
              THEN [bar EXCEPT !.phase = "audio", !.count = 0]
              ELSE [bar EXCEPT !.phase = "tool", !.proc = "running"]
    /\ UNCHANGED <<frontend, verbose, files, w, shown, exitCode, guiVars,
                   menuVars, promptVars, fetchVars>>

\* process.wait() has returned.  download_adaptive_video sets progress_var
\* to 100 from the worker thread (line 509); download_audio schedules it
\* (line 576).
GuiBarFull ==
    /\ bar.op \in {"gui_audio", "gui_adaptive"}
    /\ bar.phase = "tool" /\ bar.proc = "exited"
    /\ bar' = IF bar.op = "gui_adaptive"
              THEN [Report(bar, 100) EXCEPT !.phase = "done"]
              ELSE [bar EXCEPT !.phase = "done", !.pending = Append(@, 100)]
    /\ UNCHANGED <<frontend, verbose, files, w, shown, exitCode, guiVars,
                   menuVars, promptVars, fetchVars>>

\* The event loop runs the callback scheduled first: update_progress, or
\* the progress_var.set(100) of download_audio.
GuiBarCallback ==
    /\ bar.pending # <<>>
    /\ bar' = [Report(bar, Head(bar.pending)) EXCEPT !.pending = Tail(@)]
    /\ UNCHANGED <<frontend, verbose, files, w, shown, exitCode, guiVars,
                   menuVars, promptVars, fetchVars>>

BarNext ==
    \/ \E size \in 1..MaxSize : ConBarDownload(size)
    \/ \E c \in 1..2 : ConBarChunk(c)
    \/ ConBarComplete
    \/ \E op \in {"con_remux", "con_transcode"}, total \in 0..MaxTotal :
          ConBarTool(op, total)
    \/ \E d \in 0..2 : ConBarLine(d)
    \/ BarToolExits
    \/ ConBarLoopEnds
    \/ \E op \in {"gui_video", "gui_audio", "gui_adaptive"},
          size \in 1..MaxSize, audio \in 0..MaxSize :
          GuiBarStart(op, size, audio)
    \/ \E c \in 1..2 : GuiBarChunk(c)
    \/ GuiBarDownloadReturns
    \/ GuiBarFull
    \/ GuiBarCallback

(***************************************************************************)
(* The whole system.                                                       *)
(***************************************************************************)
Init ==
    /\ frontend \in {"console", "gui"}
    /\ verbose \in BOOLEAN
    /\ frontend = "gui" => ~verbose
    /\ files = {}
    /\ w = [s \in Sessions |->
              IF frontend = "console" /\ s = 1
              THEN [Fresh EXCEPT !.pc = "fetch"] ELSE Fresh]
    /\ shown = [s \in Sessions |-> {}]
    /\ exitCode = -1
    /\ yt = 0
    /\ downloading = FALSE
    /\ download_thread = 0
    /\ cancel_download = FALSE
    /\ download_btn = "normal"
    /\ cancel_btn = "disabled"
    /\ queue = <<>>
    /\ yt_streams = <<>>
    /\ menu = <<>>
    /\ all_streams = <<>>
    /\ choice = NoChoice
    /\ streams = 0
    /\ tree = 0
    /\ fetch_btn = "normal"
    /\ fetch = [g \in Fetches |-> NoFetch]
    /\ formats = <<>>
    /\ bar = NoBar

Next == ConNext \/ GuiNext

\* The pipeline: a console session, or the GUI's sessions on the catalog of
\* one fetch.
Spec == Init /\ [][Next]_vars

(***************************************************************************)
(* The GUI's fetches beside its sessions: every fetch with its thread and  *)
(* its callbacks, every session up to the first step of its worker.        *)
(***************************************************************************)
FetchInit == Init /\ frontend = "gui"

FetchNext ==
    \/ GuiFetchClick
    \/ \E g \in Fetches, how \in FetchOutcomes : FetchThread(g, how)
    \/ GuiRunCallback
    \/ \E k \in Kinds : GuiStartDownload(k)
    \/ \E s \in Sessions, n \in 1..MaxChunks : WBeginDownload(s, n)

FetchSpec == FetchInit /\ [][FetchNext]_vars

(***************************************************************************)
(* The menu, built in full: organize_streams and print_stream_options on   *)
(* every list of at most MaxStreams streams, with and without -v.          *)
(***************************************************************************)
MenuInit ==
    /\ frontend \in {"console", "gui"}
    /\ verbose \in BOOLEAN
    /\ frontend = "gui" => ~verbose
    /\ yt_streams \in StreamLists(MaxStreams)
    /\ menu = <<>>
    /\ formats = <<>>
    /\ files = {}
    /\ w = [s \in Sessions |->
              IF frontend = "console" /\ s = 1
              THEN [Fresh EXCEPT !.pc = "fetch"] ELSE Fresh]
    /\ shown = [s \in Sessions |-> {}]
    /\ exitCode = -1
    /\ yt = 0
    /\ downloading = FALSE
    /\ download_thread = 0
    /\ cancel_download = FALSE
    /\ download_btn = "normal"
    /\ cancel_btn = "disabled"
    /\ queue = <<>>
    /\ all_streams = <<>>
    /\ choice = NoChoice
    /\ streams = 0
    /\ tree = 0
    /\ fetch_btn = "normal"
    /\ fetch = [g \in Fetches |-> NoFetch]
    /\ bar = NoBar

\* Lines 477-478 of download_video: the menu is built and printed.  The
\* record keeps best_audio and the audio streams as sorted by bitrate
\* (line 370) beside the two lists returned.
BuildMenu ==
    /\ frontend = "console"
    /\ w[1].pc = "fetch" /\ menu = <<>>
    /\ LET m == organize_streams(yt_streams, verbose)
           scan == ScanStreams(yt_streams, Len(yt_streams), verbose)
       IN menu' = <<[video_streams |-> m[1], audio_streams |-> m[2],
                     printed |-> print_stream_options(m[1], m[2]),
                     best_audio |-> scan.best_audio,
                     sorted_audio |->
                         SortedAudio(AudioQuality(scan.audio_streams,
                                                  Len(scan.audio_streams)))]>>
    /\ w' = [w EXCEPT ![1].pc = "prompt"]
    /\ UNCHANGED <<frontend, verbose, files, shown, exitCode, guiVars,
                   yt_streams, formats, barVars, promptVars, fetchVars>>

\* The GUI's callback update_formats, on the streams of the video fetched.
UpdateFormats ==
    /\ frontend = "gui"
    /\ formats = <<>>
    /\ formats' = <<update_formats(yt_streams)>>
    /\ UNCHANGED <<frontend, verbose, files, w, shown, exitCode, guiVars,
                   yt_streams, menu, barVars, promptVars, fetchVars>>

MenuSpec == MenuInit /\ [][BuildMenu \/ UpdateFormats]_vars

(***************************************************************************)
(* The progress displays: every operation that reports progress, run by    *)
(* itself on every size and every course of its raw events.                *)
(***************************************************************************)
BarInit == Init /\ ~verbose

BarSpec == BarInit /\ [][BarNext]_vars

(***************************************************************************)
(* The GUI's sessions to their end: the pipeline of the GUI on downloads   *)
(* of at most LiveChunks chunks, with the progress the scheduling gives.   *)
(***************************************************************************)
LiveChunks == 1    \* chunks of one byte download, where sessions run to their end

\* One step of the worker thread of session s.
WorkerStep(s) ==
    \/ \E n \in 1..LiveChunks : WBeginDownload(s, n)
    \/ WChunk(s)
    \/ WDownloadFails(s)
    \/ \E n \in 1..LiveChunks : WDownloadReturns(s, n)
    \/ \E o \in ToolOutcomes : WToolExits(s, o)
    \/ WToolMissing(s)
    \/ WCancelCleanup(s)

LiveNext ==
    \/ GuiFetch
    \/ \E k \in Kinds : GuiStartDownload(k)
    \/ GuiCancelClick
    \/ GuiRunCallback
    \/ \E s \in Sessions : WorkerStep(s)

\* What runs by itself: the event loop on a scheduled callback, and the
\* worker threads.  The downloads and the tool end and the event loop keeps
\* running: while one of them can take a step, one of them does.  Nothing
\* is asked of the user's clicks.
Running == GuiRunCallback \/ \E s \in Sessions : WorkerStep(s)

LiveSpec == FetchInit /\ [][LiveNext]_vars /\ WF_vars(Running)


(***************************************************************************)
(* Properties.                                                             *)
(***************************************************************************)
Ended(s) == w[s].pc = "ended"

\* The stages of a session's work: its downloads and the tool's run.
WorkStages == {"video", "audio", "src", "direct", "proc"}

\* The failures that come from outside the program.
EnvFaults == {"fetch", "eof", "source", "tool_missing", "explorer"}

\* The ways a session's control flow ends after completing its work.
DoneEnds == {"return", "ok"}

\* The temp files a session of its kind creates.
SessionTemps(s) ==
    CASE w[s].kind = "adaptive" ->
             IF frontend = "console" THEN {VideoTempC, AudioTempC}
                                     ELSE {TempVideo, TempAudio}
      [] w[s].kind = "virtual" ->
             IF frontend = "console" THEN {TempC} ELSE {TempAudio}
      [] OTHER -> {}

\* C1: a session cancelled during a download or the tool's run (and hit by
\* no outside failure) stops on the cancellation, and none of its temp files
\* is in the directory when it ends.
C1_CancelRemovesTemps ==
    \A s \in Sessions :
        (Ended(s) /\ w[s].cancelAt \in WorkStages /\ w[s].fault \notin EnvFaults)
            => (w[s].byCancel /\ w[s].endFiles \cap SessionTemps(s) = {})

C3_NonzeroExitFails ==
    \A s \in Sessions :
        (Ended(s) /\ w[s].rc > 0)
            => (w[s].end \notin DoneEnds /\ "success" \notin shown[s])

\* C4: once the tool has terminated, with status 0 or not, the session ends
\* with none of its temp inputs in the directory.
C4_InputsRemovedAfterTool ==
    \A s \in Sessions :
        (Ended(s) /\ w[s].rc >= 0) => w[s].endFiles \cap SessionTemps(s) = {}

\* C5: a session whose byte download failed ends as failed, with none of
\* its temp files in the directory.
C5_SourceFailureCleansUp ==
    \A s \in Sessions :
        (Ended(s) /\ w[s].fault = "source")
            => /\ w[s].end \in {"exception", "raised"}
               /\ w[s].endFiles \cap SessionTemps(s) = {}

\* C6: in every state, a file is at a session's final destination path only
\* if the session has confirmed success: its download or its tool run is
\* complete, with no nonzero exit.
C6_FinalOnlyOnSuccess ==
    \A s \in Sessions :
        w[s].final =>
            /\ w[s].rc <= 0
            /\ \/ Ended(s) /\ w[s].end \in DoneEnds
               \/ w[s].pc = "explorer"

\* C7: in the GUI at most one worker runs at a time, and Download is not
\* accepted while a worker runs.
C7_OneSessionAtATime ==
    frontend = "gui" =>
        /\ \A s, u \in Sessions : (IsAlive(s) /\ IsAlive(u)) => s = u
        /\ StartAccepted => \A s \in Sessions : ~IsAlive(s)

\* C8: after a cancellation during a download or the tool's run at most one
\* further chunk is handled, and a session cancelled during the tool's run
\* does not end as completed.
C8_BoundedCancel ==
    \A s \in Sessions :
        w[s].cancelAt \in WorkStages
            => /\ w[s].extra <= 1
               /\ (Ended(s) /\ w[s].cancelAt = "proc") => w[s].end \notin DoneEnds

\* C9: a session that stopped on the user's cancellation is shown neither
\* the error outcome nor the success message.
C9_CancelShownDistinct ==
    \A s \in Sessions :
        w[s].byCancel => shown[s] \cap {"error", "success"} = {}

\* C10: the console process ends with status 0 exactly when the session
\* completed or the user interrupted it, and with status 1 exactly when it
\* failed (an outside failure, a nonzero tool exit, any other exception).
C10_ConsoleExitCode ==
    frontend = "console" =>
        LET cancelled == w[1].cancelAt # "none"
            failed    == w[1].fault # "none" \/ w[1].rc > 0
        IN /\ ~Ended(1) => exitCode = -1
           /\ Ended(1) =>
                /\ exitCode \in {0, 1}
                /\ exitCode = 0 <=> (cancelled \/ ~failed)
                /\ exitCode = 1 <=> (failed /\ ~cancelled)

C10_Witness ==
    /\ frontend = "console" /\ Ended(1)
    /\ w[1].rc = 1 /\ w[1].kind = "virtual" /\ exitCode = 1

\* C11: the tool starts only as the last required download returns with
\* nothing left to fetch (the audio download of an adaptive pair, the source
\* download of a transcode); the audio download of a pair starts only as
\* the video download returns with nothing left; and a pair starts with its
\* video download.
C11_StagesSequential ==
    [][\A s \in Sessions :
        LET a == w[s]
            b == w'[s]
        IN /\ (b.pc = "proc" /\ a.pc # "proc") =>
                 /\ a.pc = "dl" /\ a.left = 0
                 /\ a.stage = (IF a.kind = "adaptive" THEN "audio" ELSE "src")
           /\ (b.pc = "dl" /\ b.stage = "audio"
                 /\ ~(a.pc = "dl" /\ a.stage = "audio")) =>
                 a.pc = "dl" /\ a.stage = "video" /\ a.left = 0
           /\ (b.pc = "dl" /\ a.pc # "dl" /\ b.kind = "adaptive") =>
                 b.stage = "video"]_vars

C11_Witness ==
    \E s \in Sessions :
        w[s].kind = "adaptive" /\ w[s].pc = "proc" /\ w[s].cancelAt = "none"

\* C12: a session on an adaptive video or a virtual audio option, with or
\* without -v, that was not cancelled and met no outside failure, has run
\* the tool by the time it ends.
C12_BothStagesRun ==
    \A s \in Sessions :
        (Ended(s) /\ w[s].kind \in {"adaptive", "virtual"}
            /\ w[s].cancelAt = "none" /\ w[s].fault \notin EnvFaults)
            => w[s].rc >= 0

\* C13: a session on a progressive video or a raw audio stream never runs
\* the tool: it is never in the processing stage, no exit status of the tool
\* is ever recorded for it, and when it ends, stopped by no cancellation and
\* hit by no failure, it ends as completed with its file at the final path.
C13_DirectSkipsProcessing ==
    \A s \in Sessions :
        w[s].kind \in {"progressive", "rawaudio"} =>
            /\ w[s].pc # "proc"
            /\ w[s].rc = -1
            /\ w[s].stage \in {"none", "direct"}
            /\ (Ended(s) /\ w[s].cancelAt = "none" /\ ~w[s].byCancel
                  /\ w[s].fault = "none")
                  => (w[s].end \in DoneEnds /\ w[s].final)

C13_Witness ==
    \E s \in Sessions :
        /\ frontend = "gui" /\ w[s].kind = "progressive"
        /\ Ended(s) /\ w[s].end = "ok"

\* A line without its leading zeros.
RECURSIVE StripZeros(_)
StripZeros(line) ==
    IF Len(line) > 1 /\ line[1] = "0" THEN StripZeros(Tail(line)) ELSE line

\* Whether a line is the decimal numeral of k.
Denotes(line, k) == StripZeros(line) = ToStr(k)

\* C14: at the console prompt nothing is selected, nothing downloaded and no
\* file created while the session waits for a line or has just read one;
\* and whenever an option is selected, the line read denotes an integer k
\* of 1..N and the option is the k-th of the menu.
C14_PromptRejects ==
    frontend = "console" =>
        /\ w[1].pc \in {"prompt", "read"} =>
              (w[1].kind = "none" /\ w[1].stage = "none" /\ files = {})
        /\ w[1].kind # "none" =>
              \E k \in 1..Len(all_streams) :
                  Denotes(choice.line, k) /\ w[1].kind = all_streams[k]

C14_Witness ==
    /\ frontend = "console" /\ w[1].pc = "prompt" /\ all_streams # <<>>
    /\ "invalid" \in shown[1]

\* C15: a console session whose menu is empty does not go on to the prompt:
\* it has ended, with status 1.
C15_EmptyMenuFails ==
    (frontend = "console" /\ all_streams = <<>>
        /\ w[1].pc \notin {"idle", "fetch"})
        => (Ended(1) /\ exitCode = 1)

\* C16: a failed fetch installs nothing and is reported as an error.  In
\* the console the session ends with the error line and no menu; in the GUI
\* self.yt, self.streams and the tree are not those of the failed fetch, the
\* success message is not shown for it, and the error message is shown for
\* it once its callbacks have run.
C16_FailedFetchStaysIdle ==
    /\ (frontend = "console" /\ w[1].fault = "fetch")
          => (all_streams = <<>> /\ "error" \in shown[1])
    /\ \A g \in Fetches :
          (fetch[g].pc = "done" /\ fetch[g].how # "ok") =>
              /\ yt # g /\ streams # g /\ tree # g
              /\ "loaded" \notin fetch[g].shown
              /\ (\A i \in 1..Len(queue) :
                      ~(queue[i][1] \in FetchCallbacks /\ queue[i][2] = g))
                    => "error" \in fetch[g].shown

\* C17: the option a worker takes comes from the catalog the user selected
\* from.
C17_PositionsStable ==
    \A s \in Sessions : w[s].got # 0 => w[s].got = w[s].sel

\* The streams with a video track that organize_streams does not skip.
Admitted(stream) ==
    includes_video_track(stream) /\ (verbose \/ stream.subtype # "webm")

HasAdmitted(res) ==
    \E k \in 1..Len(yt_streams) :
        Admitted(yt_streams[k]) /\ yt_streams[k].resolution = res

\* The first of them with a resolution, as a position of yt.streams.
FirstAdmitted(res) ==
    CHOOSE k \in 1..Len(yt_streams) :
        /\ Admitted(yt_streams[k]) /\ yt_streams[k].resolution = res
        /\ \A j \in 1..(k - 1) :
              ~(Admitted(yt_streams[j]) /\ yt_streams[j].resolution = res)

\* The number a resolution label stands for.
ResolutionNumber(res) ==
    CASE res = P720 -> 720 [] res = P1080 -> 1080 [] res = P2160 -> 2160

\* C18: whatever the streams and the -v flag, the video menu holds at most
\* one entry of every resolution other than 1080p, which is the first stream
\* of that resolution the scan did not skip, whatever the sizes of the later
\* ones; and at most two entries of 1080p.
C18_VideoDedup ==
    menu # <<>> =>
        LET V == menu[1].video_streams
        IN /\ \A i, j \in 1..Len(V) :
                 (V[i].resolution = V[j].resolution
                     /\ V[i].resolution # P1080) => i = j
           /\ \A i \in 1..Len(V) :
                 V[i].resolution # P1080 =>
                     /\ HasAdmitted(V[i].resolution)
                     /\ V[i] = yt_streams[FirstAdmitted(V[i].resolution)]
           /\ Cardinality({i \in 1..Len(V) : V[i].resolution = P1080}) <= 2

C18_Witness ==
    /\ menu # <<>>
    /\ \E i, j \in 1..Len(yt_streams) :
          /\ i < j
          /\ Admitted(yt_streams[i]) /\ Admitted(yt_streams[j])
          /\ yt_streams[i].resolution = P720
          /\ yt_streams[j].resolution = P720
          /\ yt_streams[j].filesize < yt_streams[i].filesize

\* C19: whenever the scan meets a 1080p stream, the first one it meets is
\* the first 1080p entry of the video menu and its row is printed with the
\* quality 1080p+, whatever other resolutions the menu holds.
C19_PrimaryFlagged ==
    (menu # <<>> /\ HasAdmitted(P1080)) =>
        LET V == menu[1].video_streams
        IN \E i \in 1..Len(V) :
              /\ V[i] = yt_streams[FirstAdmitted(P1080)]
              /\ \A j \in 1..(i - 1) : V[j].resolution # P1080
              /\ menu[1].printed[i] = P1080 \o <<"+">>

\* Scenario A: 1080p 50 MB, 1080p 40 MB, 720p 30 MB.
ScenarioA ==
    <<VideoStream(P1080, "mp4", 50), VideoStream(P1080, "mp4", 40),
      VideoStream(P720, "mp4", 30)>>

\* C20: the video menu descends strictly by the number of the resolution,
\* but for the two 1080p entries, which are neighbours, the primary (the
\* first 1080p stream met) before the smaller secondary; and Scenario A
\* gives 1080p+ 50, 1080p 40, 720p 30 in this order.
C20_VideoOrder ==
    menu # <<>> =>
        LET V == menu[1].video_streams
        IN /\ \A i \in 1..(Len(V) - 1) :
                 LET a == ResolutionNumber(V[i].resolution)
                     b == ResolutionNumber(V[i + 1].resolution)
                 IN \/ a > b
                    \/ /\ a = b /\ V[i].resolution = P1080
                       /\ V[i] = yt_streams[FirstAdmitted(P1080)]
                       /\ V[i + 1].filesize < V[i].filesize
           /\ yt_streams = ScenarioA =>
                 /\ V = ScenarioA
                 /\ SubSeq(menu[1].printed, 1, 3)
                      = <<P1080 \o <<"+">>, P1080, P720>>

C20_Witness == menu # <<>> /\ yt_streams = ScenarioA

\* The audio-only streams of yt.streams, in order.
AudioOnly == SelectSeq(yt_streams, IsOnlyAudio)

\* The bitrate of an audio stream as a number, 128 where it has none.
BitrateNumber(stream) ==
    CASE stream.abr = None -> 128
      [] stream.abr = Abr128 -> 128
      [] stream.abr = Abr160 -> 160

\* C21: the audio streams sorted by bitrate hold one stream for every
\* bitrate among the audio-only streams (128 for a stream without one), no
\* bitrate twice, each a stream of yt.streams that no stream of its bitrate
\* is smaller than, by descending bitrate.
C21_AudioDedup ==
    menu # <<>> =>
        LET A == AudioOnly
            R == menu[1].sorted_audio
        IN /\ {BitrateNumber(R[i]) : i \in 1..Len(R)}
                = {BitrateNumber(A[k]) : k \in 1..Len(A)}
           /\ \A i, j \in 1..Len(R) :
                 BitrateNumber(R[i]) = BitrateNumber(R[j]) => i = j
           /\ \A i \in 1..Len(R) :
                 /\ \E k \in 1..Len(A) : A[k] = R[i]
                 /\ \A k \in 1..Len(A) :
                       BitrateNumber(A[k]) = BitrateNumber(R[i])
                           => R[i].filesize <= A[k].filesize
           /\ \A i \in 1..(Len(R) - 1) :
                 BitrateNumber(R[i]) > BitrateNumber(R[i + 1])

\* Two buckets, the larger file of one of them first.
C21_Witness ==
    /\ menu # <<>>
    /\ Len(menu[1].sorted_audio) = 2
    /\ \E i, j \in 1..Len(AudioOnly) :
          /\ i < j
          /\ BitrateNumber(AudioOnly[i]) = BitrateNumber(AudioOnly[j])
          /\ AudioOnly[j].filesize < AudioOnly[i].filesize

\* The number a bitrate label stands for.
LabelNumber(abr) == CASE abr = Abr128 -> 128 [] abr = Abr160 -> 160

\* Scenario B: 128kbps 5 MB, 160kbps 4 MB, 128kbps 6 MB.
ScenarioB ==
    <<AudioStream(Abr128, 5), AudioStream(Abr160, 4), AudioStream(Abr128, 6)>>

\* The audio-only streams of the highest bitrate that none of that bitrate is
\* smaller than.
TopAudio ==
    {AudioOnly[k] : k \in {k \in 1..Len(AudioOnly) :
        \A j \in 1..Len(AudioOnly) :
            \/ BitrateNumber(AudioOnly[j]) < BitrateNumber(AudioOnly[k])
            \/ /\ BitrateNumber(AudioOnly[j]) = BitrateNumber(AudioOnly[k])
               /\ AudioOnly[k].filesize <= AudioOnly[j].filesize}}

\* C22: without -v and with an audio-only stream, the audio menu is two
\* virtual options, mp3 then aac, both of one smallest stream of the highest
\* bitrate, with its bitrate and its file size and no raw stream beside
\* them; Scenario B gives mp3 and aac at 160kbps, 4 MB.
C22_TwoVirtualOptions ==
    (menu # <<>> /\ ~verbose /\ AudioOnly # <<>>) =>
        LET M == menu[1].audio_streams
        IN /\ Len(M) = 2
           /\ IsDict(M[1]) /\ IsDict(M[2])
           /\ M[1].subtype = "mp3" /\ M[2].subtype = "aac"
           /\ M[1].original_stream = M[2].original_stream
           /\ M[1].original_stream \in TopAudio
           /\ \A i \in 1..2 :
                 /\ M[i].filesize = M[i].original_stream.filesize
                 /\ LabelNumber(M[i].abr)
                      = BitrateNumber(M[i].original_stream)
           /\ yt_streams = ScenarioB =>
                 \A i \in 1..2 : M[i].abr = Abr160 /\ M[i].filesize = 4

\* C27: a virtual option of the audio menu has the file size of the stream
\* it comes from and that stream's bitrate label, and the label stands for
\* the bitrate the stream was grouped under: 128 for a stream without one.
C27_VirtualLabel ==
    menu # <<>> =>
        LET M == menu[1].audio_streams
        IN \A i \in 1..Len(M) :
              IsDict(M[i]) =>
                  LET source == M[i].original_stream
                  IN /\ M[i].filesize = source.filesize
                     /\ source.abr # None => M[i].abr = source.abr
                     /\ LabelNumber(M[i].abr) = BitrateNumber(source)

\* The first audio-only stream of the highest bitrate, a stream without a
\* bitrate counting as absent.
HighestFirst(absent) ==
    LET Number(s) == IF s.abr = None THEN absent ELSE LabelNumber(s.abr)
    IN AudioOnly[CHOOSE k \in 1..Len(AudioOnly) :
           \A j \in 1..Len(AudioOnly) :
               \/ Number(AudioOnly[j]) < Number(AudioOnly[k])
               \/ Number(AudioOnly[j]) = Number(AudioOnly[k]) /\ k <= j]

\* C28: with an audio-only stream among yt.streams, best_audio after the
\* scan is the first of the audio-only streams of the highest bitrate,
\* whether a stream without a bitrate counts as the lowest or as 128.
C28_BestAudio ==
    (menu # <<>> /\ AudioOnly # <<>>) =>
        menu[1].best_audio \in {<<HighestFirst(0)>>, <<HighestFirst(128)>>}

\* The resolutions of the streams with a video track, those of the webm
\* streams among them or not.
ResolutionsOf(webm) ==
    {yt_streams[k].resolution :
        k \in {k \in 1..Len(yt_streams) :
                  /\ includes_video_track(yt_streams[k])
                  /\ (webm \/ yt_streams[k].subtype # "webm")}}

\* C29: without -v no entry of the video menu is a webm stream and the
\* resolutions of the menu are those some stream other than webm has, so a
\* resolution that only webm streams have is not offered; with -v the
\* resolutions of the menu are those of all the streams with a video track.
C29_WebmFilter ==
    menu # <<>> =>
        LET V == menu[1].video_streams
            offered == {V[i].resolution : i \in 1..Len(V)}
        IN /\ ~verbose =>
                 /\ \A i \in 1..Len(V) : V[i].subtype # "webm"
                 /\ offered = ResolutionsOf(FALSE)
           /\ verbose => offered = ResolutionsOf(TRUE)

\* Without -v, 2160p in webm alone beside a resolution in mp4.
C29_Witness ==
    /\ menu # <<>> /\ ~verbose
    /\ menu[1].video_streams # <<>>
    /\ P2160 \in ResolutionsOf(TRUE)
    /\ P2160 \notin ResolutionsOf(FALSE)

\* The 1080p streams the scan meets after the first one and finds smaller.
SmallerLater1080 ==
    {k \in (FirstAdmitted(P1080) + 1)..Len(yt_streams) :
        /\ Admitted(yt_streams[k]) /\ yt_streams[k].resolution = P1080
        /\ yt_streams[k].filesize < yt_streams[FirstAdmitted(P1080)].filesize}

\* C30: the video menu has a second 1080p entry exactly when a 1080p stream
\* the scan meets after the first is strictly smaller than the first; the
\* second entry is one of these and follows the first one, and no 1080p
\* entry is a later stream that is not smaller.  Without a 1080p stream the
\* menu has no 1080p entry.
C30_Secondary1080 ==
    menu # <<>> =>
        LET V == menu[1].video_streams
            entries == {i \in 1..Len(V) : V[i].resolution = P1080}
        IN IF ~HasAdmitted(P1080) THEN entries = {}
           ELSE LET primary == yt_streams[FirstAdmitted(P1080)]
                IN /\ Cardinality(entries)
                        = (IF SmallerLater1080 # {} THEN 2 ELSE 1)
                   /\ \E i \in entries :
                         /\ V[i] = primary
                         /\ \A j \in entries : j >= i
                   /\ \A i \in entries :
                         \/ V[i] = primary
                         \/ /\ V[i].filesize < primary.filesize
                            /\ \E k \in SmallerLater1080 :
                                  V[i] = yt_streams[k]

\* A later 1080p stream that is not smaller, then one that is.
C30_Witness ==
    /\ menu # <<>> /\ HasAdmitted(P1080)
    /\ SmallerLater1080 # {}
    /\ \E k \in (FirstAdmitted(P1080) + 1)..Len(yt_streams) :
          /\ Admitted(yt_streams[k]) /\ yt_streams[k].resolution = P1080
          /\ yt_streams[k].filesize
                >= yt_streams[FirstAdmitted(P1080)].filesize

\* The options of the console's menu: what is downloaded and what it is
\* made into.
ConOptions(m) ==
    [i \in 1..Len(m[1]) |-> <<"video", m[1][i]>>]
    \o [i \in 1..Len(m[2]) |->
          IF IsDict(m[2][i]) THEN <<m[2][i].subtype, m[2][i].original_stream>>
          ELSE <<"audio", m[2][i]>>]

\* The options of the GUI's menu.
GuiOptions(fs) ==
    [i \in 1..Len(fs) |->
        <<IF fs[i].values[3] \in {"mp3", "aac"} /\ ~includes_video_track(fs[i].stream)
          THEN fs[i].values[3] ELSE "video",
          fs[i].stream>>]

\* C26: the menu the GUI builds from the streams of a video holds the
\* options of the menu the console builds from them, with or without -v, in
\* the same order.
C26_SameMenu ==
    (frontend = "gui" /\ formats # <<>>) =>
        \E v \in BOOLEAN :
            GuiOptions(formats[1]) = ConOptions(organize_streams(yt_streams, v))

\* C24: whatever operation reports progress, what it shows is a percentage
\* between 0 and 100 and never less than what it showed before, whatever
\* the chunks and the counters, those beyond the expected total included.
C24_ProgressBounded ==
    bar.op # "none" =>
        /\ 0 <= bar.n /\ bar.n <= 100
        /\ bar.last <= bar.n

\* C25: where the total of a merge or a conversion is unknown or zero, the
\* bar shows 0 as long as the loop reads the tool's lines, and 100 only
\* after the loop, which the tool's termination ends.
C25_UnknownTotal ==
    (bar.op \in {"con_remux", "con_transcode"} /\ bar.total = 0) =>
        IF bar.phase = "loop" THEN bar.n = 0 /\ bar.last = 0
        ELSE bar.n = 100 /\ bar.last = 0 /\ bar.proc = "exited"

\* Progress lines were read, the tool has terminated and the bar is full.
C25_Witness ==
    /\ bar.op = "con_remux" /\ bar.total = 0
    /\ bar.count > 0 /\ bar.phase = "closed" /\ bar.n = 100

\* C33: when the console process exits from a session on an adaptive video,
\* however the session left the branch (the merge done, a nonzero exit of
\* the tool, a failure of either download or of the tool's start, an
\* interrupt in either download or during the merge), neither the video
\* temp file nor the audio temp file is in the download directory.
C33_AdaptiveTempsRemoved ==
    (frontend = "console" /\ exitCode # -1 /\ w[1].kind = "adaptive") =>
        /\ VideoTempC \notin files /\ AudioTempC \notin files
        /\ w[1].endFiles \cap {VideoTempC, AudioTempC} = {}

\* The user interrupted the audio download, both temp files written to.
C33_Witness ==
    /\ frontend = "console" /\ exitCode # -1
    /\ w[1].kind = "adaptive" /\ w[1].end = "interrupt"
    /\ w[1].cancelAt = "audio"

\* C31: in the GUI, while a session's worker thread is running, downloading
\* is true and the Cancel button takes clicks (or the cancel was already
\* requested for that session), and a cancel requested for the session is
\* not lost: cancel_download stays true until that worker has ended.
C31_RunningSessionGuarded ==
    frontend = "gui" =>
        \A s \in Sessions : IsAlive(s) =>
            /\ downloading
            /\ cancel_btn = "normal" \/ w[s].cancelAt # "none"
            /\ w[s].cancelAt # "none" => cancel_download

\* The front end is idle: no session active, no cancel requested, Download
\* enabled, Cancel disabled.
FrontEndIdle ==
    /\ ~downloading /\ ~cancel_download
    /\ download_btn = "normal" /\ cancel_btn = "disabled"

\* A session is under way: started, and its worker or one of its callbacks
\* is still to run.
Busy == \E s \in Sessions : w[s].pc \notin {"idle", "over"}

====
